---- MODULE Spec2Model ----
(***************************************************************************)
(* The Canvas assignment tracker of lessAIcodeGUIbetter.py as a state      *)
(* machine: the fetch button, the worker threads started by                *)
(* fetch_assignments, the paginated fetcher get_all_pages, the due-date    *)
(* parser, the classification / sort / weekday grouping and the widgets    *)
(* the worker writes (progress bar, progress label, status label, tabs).   *)
(*                                                                         *)
(* Time is counted in whole hours since 1970-01-01T00:00Z (a Thursday).    *)
(* log_status only appends text to a box nothing reads back, and the       *)
(* message boxes of the except clauses hold no state; both are left out.   *)
(* A worker thread advances one call on shared state at a time, so the     *)
(* calls of two threads interleave freely.                                 *)
(***************************************************************************)
EXTENDS Integers, Sequences, FiniteSets, TLC

VARIABLES
    remote,         \* what the Canvas server holds (the environment)
    tzdata,         \* whether the installation has the zone database
    clock,          \* the latest instant any datetime.now() call returned
    button,         \* fetch_button's state
    progressValue,  \* progress_bar["value"]
    progressMax,    \* progress_bar["maximum"]
    progressLabel,  \* the percentage shown by progress_label
    statusLabel,    \* status_label: the authenticated user, or "none"
    children,       \* tab_frames: the labels each tab holds, as created
    display,        \* tab_frames: the labels packed into each tab, as packed
    th,             \* per worker thread: its position and its locals
    clicksLeft      \* the clicks on the fetch button still to come

vars == <<remote, tzdata, clock, button, progressValue, progressMax, progressLabel,
          statusLabel, children, display, th, clicksLeft>>

----------------------------------------------------------------------------
(* Bounds of the model *)

MaxCourses == 2
MaxAssign == 2
MaxClock == 1
MaxPageItems == 5
MaxClicks == 2
FairClicks == 1

(* Program constants *)

HoursPerDay == 24
DaysPerWeek == 7
EpochWeekday == 3

----------------------------------------------------------------------------
(* Values *)

(* The worker threads: the w-th click on the fetch button starts thread w. *)
Workers == 1..MaxClicks

day_tabs == <<"Monday", "Tuesday", "Wednesday", "Thursday", "Friday",
              "Saturday", "Sunday">>

NoDueTab == "No Due Date"

all_tabs == day_tabs \o <<NoDueTab>>

DaySet == {day_tabs[i] : i \in 1..Len(day_tabs)}

TabSet == {all_tabs[i] : i \in 1..Len(all_tabs)}

Min(a, b) == IF a <= b THEN a ELSE b

Max(a, b) == IF a >= b THEN a ELSE b

SeqsUpTo(S, n) == UNION {[1..k -> S] : k \in 0..n}

(* The end of a due_at string: nothing, the letter Z, or an offset of      *)
(* whole hours such as -08:00.                                             *)
NoZone == [suffix |-> "none", off |-> 0]

Zulu == [suffix |-> "Z", off |-> 0]

Offset(h) == [suffix |-> "offset", off |-> h]

(* A due_at value: None, or a string.  A string is held as the reading of  *)
(* its date-time part (hours since the epoch) and its zone suffix.         *)
NoneDue == [kind |-> "none", wall |-> 0, zone |-> NoZone]

IsoDue(wall, zone) == [kind |-> "iso", wall |-> wall, zone |-> zone]

JunkDue == [kind |-> "junk", wall |-> 0, zone |-> NoZone]

(* 1970-07-02T07:00Z, midnight of a Thursday in Los Angeles. *)
SummerDue == 182 * HoursPerDay + 7

DueValues ==
    {NoneDue, JunkDue, IsoDue(0, NoZone), IsoDue(0, Zulu),
     IsoDue(0 - 8, Offset(0 - 8)), IsoDue(1, Zulu), IsoDue(SummerDue, Zulu)}

(* A character is held as its code point.  These are the characters       *)
(* str.strip() removes from both ends: those str.isspace() is true of.     *)
Whitespace ==
    {9, 10, 11, 12, 13, 28, 29, 30, 31, 32, 133, 160, 5760}
    \cup (8192..8202) \cup {8232, 8233, 8239, 8287, 12288}

(* The token typed into token_entry, as a sequence of characters: blanks,  *)
(* a tab, a line feed, a vertical tab, a no-break space, an em space, and  *)
(* the letters t and k.                                                    *)
Tokens == {<<>>, <<32>>, <<9>>, <<32, 10>>, <<11>>, <<160>>, <<32, 8195, 32>>,
           <<116>>, <<32, 116, 32, 107, 10>>, <<160, 116, 11>>}

(* str.strip(): without its leading and trailing whitespace. *)
Strip(s) ==
    LET inked == {i \in 1..Len(s) : s[i] \notin Whitespace}
    IN IF inked = {} THEN <<>>
       ELSE SubSeq(s, CHOOSE i \in inked : \A j \in inked : i <= j,
                      CHOOSE i \in inked : \A j \in inked : i >= j)

----------------------------------------------------------------------------
(* The remote server: courses 1..ncourses, each with a list of assignments, *)
(* every collection served in pages of perPage items linked by "next".      *)

CourseRec(c) == [id |-> c, hasName |-> (c % 2 = 1), name |-> <<"course", c>>]

OwnedBy(s, o, c) ==
    LET F[k \in 0..Len(s)] ==
            IF k = 0 THEN <<>>
            ELSE IF o[k] = c THEN Append(F[k - 1], s[k]) ELSE F[k - 1]
    IN F[Len(s)]

(* Every (course count, page size, assignment lists) combination with at  *)
(* most maxItems assignments overall: s is the list of due_at values and   *)
(* o[j] the course owning the j-th; items of a course beyond ncourses are  *)
(* not served.                                                             *)
RemotesOf(maxItems, dues, perPages) ==
    {[ncourses |-> n, perPage |-> p, due |-> [c \in 1..n |-> OwnedBy(s, o, c)]] :
        n \in 0..MaxCourses, p \in perPages,
        s \in SeqsUpTo(dues, maxItems), o \in [1..maxItems -> 1..MaxCourses]}

SpecRemotes == RemotesOf(MaxAssign, DueValues, {1, 2})

PageRemotes == RemotesOf(MaxPageItems, {IsoDue(SummerDue, Zulu)}, {1, 2})

(* One course with one assignment. *)
ConcRemotes ==
    {r \in RemotesOf(1, {IsoDue(SummerDue, Zulu)}, {1}) :
        r.ncourses = 1 /\ Len(r.due[1]) = 1}

CourseList(r) == [c \in 1..r.ncourses |-> CourseRec(c)]

AssignList(r, c) ==
    [j \in 1..Len(r.due[c]) |-> [name |-> <<c, j>>, due_at |-> r.due[c][j]]]

(* A URL names an endpoint, the course it is about and the page asked for. *)
NoUrl == [ep |-> "none", cid |-> 0, page |-> 0]

UserUrl == [ep |-> "user", cid |-> 0, page |-> 1]

CoursesUrl == [ep |-> "courses", cid |-> 0, page |-> 1]

AssignmentsUrl(course_id) == [ep |-> "assignments", cid |-> course_id, page |-> 1]

NoParams == "none"

ActiveParams == "enrollment_state=active"

Collection(r, url) ==
    IF url.ep = "courses" THEN CourseList(r) ELSE AssignList(r, url.cid)

PageCount(n, p) == IF n = 0 THEN 1 ELSE (n + p - 1) \div p

PageBody(items, p, i) == SubSeq(items, (i - 1) * p + 1, Min(i * p, Len(items)))

Pages(r, url) ==
    [i \in 1..PageCount(Len(Collection(r, url)), r.perPage) |->
        PageBody(Collection(r, url), r.perPage, i)]

(* The response to GET url: the page's body and its "next" link, or an    *)
(* error status with no body.                                              *)
Response(r, url, ok) ==
    IF ok
    THEN [ok |-> TRUE,
          body |-> Pages(r, url)[url.page],
          hasNext |-> url.page < Len(Pages(r, url)),
          next |-> [url EXCEPT !.page = url.page + 1]]
    ELSE [ok |-> FALSE, body |-> <<>>, hasNext |-> FALSE, next |-> NoUrl]

----------------------------------------------------------------------------
(* parse_due_date *)

(* due_str.replace("Z", "+00:00") *)
ReplaceZ(s) == IF s.zone = Zulu THEN [s EXCEPT !.zone = Offset(0)] ELSE s

(* datetime.fromisoformat: an instant with an offset (the reading minus    *)
(* the offset), an instant without one (a naive datetime), or ValueError:  *)
(* for text that is no date and for an offset of a day or more.  A         *)
(* trailing Z is read as UTC (Python 3.11 and later).                      *)
FromIsoFormat(s) ==
    IF s.kind = "iso" /\ s.zone.suffix = "offset"
          /\ 0 - HoursPerDay < s.zone.off /\ s.zone.off < HoursPerDay
    THEN [ok |-> TRUE, aware |-> TRUE, t |-> s.wall - s.zone.off]
    ELSE IF s.kind = "iso" /\ s.zone.suffix = "Z"
    THEN [ok |-> TRUE, aware |-> TRUE, t |-> s.wall]
    ELSE IF s.kind = "iso" /\ s.zone.suffix = "none"
    THEN [ok |-> TRUE, aware |-> FALSE, t |-> s.wall]
    ELSE [ok |-> FALSE, aware |-> FALSE, t |-> 0]

parse_due_date(due_str) == FromIsoFormat(ReplaceZ(due_str))

(* parse_due_date(a["due_at"]) >= now raises ValueError when the string    *)
(* does not parse and TypeError when it parses to a naive datetime (now is *)
(* timezone-aware).                                                        *)
CompareRaises(a) ==
    /\ a.due_at # NoneDue
    /\ \/ ~parse_due_date(a.due_at).ok
       \/ ~parse_due_date(a.due_at).aware

(* The exception the upcoming_assignments comprehension stops with: that of *)
(* the first record whose comparison raises.                               *)
ComparisonError(all) ==
    LET i == CHOOSE k \in 1..Len(all) :
                 /\ CompareRaises(all[k])
                 /\ \A j \in 1..(k - 1) : ~CompareRaises(all[j])
    IN IF parse_due_date(all[i].due_at).ok THEN "type_error" ELSE "value_error"

DueInstant(a) == parse_due_date(a.due_at).t

(* The filter with an exclusive cutoff. *)
UpcomingStrict(a, now) == a.due_at # NoneDue /\ DueInstant(a) > now

(* The filter of the upcoming_assignments comprehension. *)
IsUpcoming(a, now) == a.due_at # NoneDue /\ DueInstant(a) >= now

(* The filter of the no_due_assignments comprehension. *)
IsNoDue(a) == a.due_at = NoneDue

(* list.sort(key=...): stable, ascending by key; x goes after every        *)
(* element whose key is not greater than its own.                          *)
InsertSorted(sorted, x) ==
    LET n == Cardinality({i \in 1..Len(sorted) : DueInstant(sorted[i]) <= DueInstant(x)})
    IN SubSeq(sorted, 1, n) \o <<x>> \o SubSeq(sorted, n + 1, Len(sorted))

(* The insertion of a sort that is not stable: x goes before its equals. *)
InsertBeforeEqual(sorted, x) ==
    LET n == Cardinality({i \in 1..Len(sorted) : DueInstant(sorted[i]) < DueInstant(x)})
    IN SubSeq(sorted, 1, n) \o <<x>> \o SubSeq(sorted, n + 1, Len(sorted))

SortUnstable(list) ==
    LET F[k \in 0..Len(list)] ==
            IF k = 0 THEN <<>> ELSE InsertBeforeEqual(F[k - 1], list[k])
    IN F[Len(list)]

SortByDue(list) ==
    LET F[k \in 0..Len(list)] ==
            IF k = 0 THEN <<>> ELSE InsertSorted(F[k - 1], list[k])
    IN F[Len(list)]

----------------------------------------------------------------------------
(* Weekday grouping *)

LosAngeles == "America/Los_Angeles"

Utc == "UTC"

(* ZoneInfo("America/Los_Angeles"), or timezone.utc when the lookup fails: *)
(* the installation has no zone database.                                  *)
LocalZone(installed) == IF installed THEN LosAngeles ELSE Utc

(* Daylight-saving time of 1970 in Los Angeles: from 26 April 10:00Z until *)
(* 25 October 09:00Z.  The instants of this model lie in 1969-1970.        *)
DstBegin == 115 * HoursPerDay + 10

DstEnd == 297 * HoursPerDay + 9

(* utcoffset() of a zone at an instant, in hours. *)
UtcOffset(tz, t) ==
    IF tz = Utc THEN 0
    ELSE IF DstBegin <= t /\ t < DstEnd THEN 0 - 7
    ELSE 0 - 8

(* dt.astimezone(local_tz): the local wall-clock reading of an instant. *)
LocalWall(t, tz) == t + UtcOffset(tz, t)

(* strftime("%A") of a local reading; 1970-01-01 was a Thursday. *)
Weekday(wall) ==
    day_tabs[(((wall \div HoursPerDay) + EpochWeekday) % DaysPerWeek) + 1]

(* timedelta.days: the floor of the difference in days. *)
DeltaDays(delta) == delta \div HoursPerDay

(* max(0, delta.seconds // 3600): timedelta.seconds is never negative. *)
DeltaHours(delta) == Max(0, delta % HoursPerDay)

(* due_dt_local - datetime.now(local_tz): both carry the same tzinfo, so   *)
(* the difference is that of the two wall-clock readings.                  *)
Delta(due, t, tz) == LocalWall(due, tz) - LocalWall(t, tz)

(* The label text of one upcoming item, computed at the instant `t` that   *)
(* datetime.now(local_tz) returns for it.                                  *)
WeekdayEntry(item, tz, t) ==
    [kind |-> "assignment",
     course |-> item.course_name,
     name |-> item.assignment_name,
     due |-> LocalWall(DueInstant(item), tz),
     days |-> DeltaDays(Delta(DueInstant(item), t, tz)),
     hours |-> DeltaHours(Delta(DueInstant(item), t, tz))]

NoDueEntry(item) ==
    [kind |-> "nodue", course |-> item.course_name, name |-> item.assignment_name,
     due |-> 0, days |-> 0, hours |-> 0]

(* The grey "No assignments due." / "No assignments without due dates."    *)
(* label of an empty tab.                                                  *)
Placeholder ==
    [kind |-> "placeholder", course |-> <<"none", 0>>, name |-> <<0, 0>>,
     due |-> 0, days |-> 0, hours |-> 0]

(* A label widget: the thread that created it (0: a thread of before the   *)
(* first state), the tab it is a child of and its text.  A thread creates  *)
(* a label once, so the three tell the widgets apart.                      *)
Label(w, tab, text) == [owner |-> w, tab |-> tab, text |-> text]

(* A tab's children without widget x. *)
Without(widgets, x) == SelectSeq(widgets, LAMBDA y : y # x)

EmptyTabs == [tab \in TabSet |-> <<>>]

EmptyGroups == [day \in DaySet |-> <<>>]

----------------------------------------------------------------------------
(* The worker thread: fetch_assignments_thread *)

DefaultMaximum == 100

InitLocal ==
    [pc |-> "idle", outcome |-> "none", tab |-> 0, widgets |-> <<>>,
     url |-> NoUrl, params |-> NoParams, results |-> <<>>,
     courses |-> <<>>, total_courses |-> 0, idx |-> 0,
     all_assignments |-> <<>>, requests |-> <<>>, reports |-> <<>>,
     now |-> 0, local_tz |-> Utc, upcoming |-> <<>>, no_due |-> <<>>,
     grouped |-> EmptyGroups, gi |-> 0, li |-> 0]

InFlight(w) == th[w].pc \notin {"idle", "ended"}

Statuses == {"ok", "http_error", "conn_error"}

(* What a request that did not return a success status raises: HTTPError   *)
(* from raise_for_status, or the transport's own exception from            *)
(* requests.get.                                                           *)
Raised(status) == status

(* A fetcher that does not look at the status. *)
NeverRaises(status) == FALSE

(* requests.get(...) followed by r.raise_for_status() *)
RaiseForStatus(status) == status # "ok"

LogRequest(l, url, params, status) ==
    Append(l.requests, [url |-> url, params |-> params, status |-> status])

(* Leaving the try block for the finally block: at its end ("ok"), by the  *)
(* early return ("empty_token") or through the except clause that shows    *)
(* the exception raised.                                                   *)
Leave(l, kind) == [l EXCEPT !.pc = "finally", !.outcome = kind]

(* Query parameters sent again with every "next" link. *)
KeepParams(params) == params

(* params = None once a "next" link is followed *)
NextParams(params) == NoParams

(* Pages accumulated in reverse arrival order. *)
Prepend(results, body) == body \o results

(* results.extend(r.json()) *)
Extend(results, body) == results \o body

(* get_all_pages up to its first request *)
StartPages(l, pc, url, params) ==
    [l EXCEPT !.pc = pc, !.url = url, !.params = params, !.results = <<>>]

(* one iteration of get_all_pages' while loop *)
PageStep(l, status) ==
    LET r == Response(remote, l.url, status = "ok")
        logged == [l EXCEPT !.requests = LogRequest(l, l.url, l.params, status)]
    IN IF RaiseForStatus(status)
       THEN Leave(logged, Raised(status))
       ELSE [logged EXCEPT
                !.results = Extend(l.results, r.body),
                !.url = IF r.hasNext THEN r.next ELSE NoUrl,
                !.params = IF r.hasNext THEN NextParams(l.params) ELSE l.params]

(* course.get("name", "Unnamed Course") *)
CourseName(course) ==
    IF course.hasName THEN course.name ELSE <<"Unnamed Course", 0>>

Tagged(course, assignments) ==
    [j \in 1..Len(assignments) |->
        [course_name |-> CourseName(course),
         assignment_name |-> assignments[j].name,
         due_at |-> assignments[j].due_at]]

(* The (idx, total_courses) pairs, up to a hundred courses, for which the  *)
(* double-precision product (idx / total_courses) * 100 falls just below   *)
(* the whole number idx * 100 / total_courses.                             *)
FloatShort == {<<29, 50>>, <<29, 100>>, <<57, 100>>, <<58, 100>>}

(* int((idx / max(total_courses, 1)) * 100), for up to a hundred courses:  *)
(* the floor of the quotient, one less where the float product is short.   *)
Percent(idx, total_courses) ==
    LET exact == (idx * 100) \div Max(total_courses, 1)
    IN IF <<idx, total_courses>> \in FloatShort THEN exact - 1 ELSE exact

(* A progress update skipped for a course without assignments. *)
ReportIfAny(reports, idx, total_courses, assignments) ==
    IF assignments = <<>> THEN reports
    ELSE Append(reports, [completed |-> idx, total |-> total_courses])

(* The progress update at the end of each pass of the course loop. *)
Report(reports, idx, total_courses, assignments) ==
    Append(reports, [completed |-> idx, total |-> total_courses])

(* fetch_button.config(state="disabled") *)
BeginButton == "disabled"

(* The button re-enabled at the end of the try block only. *)
ButtonOnSuccess(outcome) == IF outcome = "ok" THEN "normal" ELSE "disabled"

(* finally: fetch_button.config(state="normal") *)
FinallyButton(outcome) == "normal"

(* The clearing loop is done with a tab: on to the next tab, or to the     *)
(* first request after the last.                                           *)
AfterTab(l) ==
    IF l.tab < Len(all_tabs)
    THEN [l EXCEPT !.pc = "clear", !.tab = l.tab + 1, !.widgets = <<>>]
    ELSE [l EXCEPT !.pc = "auth", !.tab = 0, !.widgets = <<>>]

(* The labels the populate loops create in a tab, in order. *)
TabLabels(l, tab) ==
    IF tab \in DaySet
    THEN IF l.grouped[tab] # <<>> THEN l.grouped[tab] ELSE <<Placeholder>>
    ELSE IF l.no_due # <<>>
         THEN [i \in 1..Len(l.no_due) |-> NoDueEntry(l.no_due[i])]
         ELSE <<Placeholder>>

(* The grouping loop is over: on to the first label of the first tab. *)
StartPopulate(l) == [l EXCEPT !.pc = "populate", !.tab = 1, !.li = 1]

(* A label is packed: on to the next label, the next tab, or the end. *)
AfterLabel(l) ==
    IF l.li < Len(TabLabels(l, all_tabs[l.tab]))
    THEN [l EXCEPT !.pc = "populate", !.li = l.li + 1]
    ELSE IF l.tab < Len(all_tabs)
         THEN [l EXCEPT !.pc = "populate", !.tab = l.tab + 1, !.li = 1]
         ELSE [l EXCEPT !.pc = "done", !.tab = 0, !.li = 0]

----------------------------------------------------------------------------
(* Actions: one per call that reads or writes what the threads share (a    *)
(* widget, the server, the clock), together with the thread-local          *)
(* statements up to the next such call.                                    *)

(* A click on the fetch button, which invokes fetch_assignments unless the  *)
(* button is disabled: Thread(target=fetch_assignments_thread).start().    *)
Click(w) ==
    /\ clicksLeft > 0
    /\ button = "normal"
    /\ th[w].pc = "idle"
    /\ \A v \in Workers : v < w => th[v].pc # "idle"
    /\ clicksLeft' = clicksLeft - 1
    /\ th' = [th EXCEPT ![w].pc = "start"]
    /\ UNCHANGED <<remote, tzdata, clock, button, progressValue, progressMax,
                   progressLabel, statusLabel, children, display>>

(* fetch_button.config(state="disabled") *)
DisableButton(w) ==
    /\ th[w].pc = "start"
    /\ button' = BeginButton
    /\ th' = [th EXCEPT ![w].pc = "reset_bar"]
    /\ UNCHANGED <<clicksLeft, remote, tzdata, clock, progressValue, progressMax, progressLabel,
                   statusLabel, children, display>>

(* progress_bar["value"] = 0 *)
ResetBar(w) ==
    /\ th[w].pc = "reset_bar"
    /\ progressValue' = 0
    /\ th' = [th EXCEPT ![w].pc = "reset_label"]
    /\ UNCHANGED <<clicksLeft, remote, tzdata, clock, button, progressMax, progressLabel,
                   statusLabel, children, display>>

(* progress_label.config(text="Progress: 0%") *)
ResetLabel(w) ==
    /\ th[w].pc = "reset_label"
    /\ progressLabel' = 0
    /\ th' = [th EXCEPT ![w].pc = "token"]
    /\ UNCHANGED <<clicksLeft, remote, tzdata, clock, button, progressValue, progressMax,
                   statusLabel, children, display>>

(* token_entry.get().strip(); an empty token returns through the finally   *)
(* block, any other enters the loop that clears the tabs.                  *)
CheckToken(w) ==
    /\ th[w].pc = "token"
    /\ \E token \in Tokens :
          th' = [th EXCEPT ![w] =
                    IF Strip(token) = <<>>
                    THEN Leave(th[w], "empty_token")
                    ELSE [th[w] EXCEPT !.pc = "clear", !.tab = 1]]
    /\ UNCHANGED <<clicksLeft, remote, tzdata, clock, button, progressValue, progressMax,
                   progressLabel, statusLabel, children, display>>

(* tab_frames[tab].winfo_children(): the list of the tab's labels as it is *)
(* now; the inner loop runs over this list.                                *)
ListChildren(w) ==
    /\ th[w].pc = "clear"
    /\ LET widgets == children[all_tabs[th[w].tab]]
       IN th' = [th EXCEPT ![w] =
                    IF widgets = <<>> THEN AfterTab(th[w])
                    ELSE [th[w] EXCEPT !.pc = "destroy", !.widgets = widgets]]
    /\ UNCHANGED <<clicksLeft, remote, tzdata, clock, button, progressValue, progressMax,
                   progressLabel, statusLabel, children, display>>

(* widget.destroy(): the label leaves its tab; destroying a label that     *)
(* another thread has destroyed already changes nothing.                   *)
DestroyWidget(w) ==
    /\ th[w].pc = "destroy"
    /\ LET widget == Head(th[w].widgets)
           rest == Tail(th[w].widgets)
       IN /\ children' = [children EXCEPT ![widget.tab] = Without(@, widget)]
          /\ display' = [display EXCEPT ![widget.tab] = Without(@, widget)]
          /\ th' = [th EXCEPT ![w] =
                       IF rest = <<>> THEN AfterTab(th[w])
                       ELSE [th[w] EXCEPT !.widgets = rest]]
    /\ UNCHANGED <<clicksLeft, remote, tzdata, clock, button, progressValue, progressMax,
                   progressLabel, statusLabel>>

(* GET /users/self and raise_for_status *)
Authenticate(w) ==
    /\ th[w].pc = "auth"
    /\ \E status \in Statuses :
          LET logged == [th[w] EXCEPT
                            !.requests = LogRequest(th[w], UserUrl, NoParams, status)]
          IN th' = [th EXCEPT ![w] =
                       IF RaiseForStatus(status)
                       THEN Leave(logged, Raised(status))
                       ELSE [logged EXCEPT !.pc = "show_user"]]
    /\ UNCHANGED <<clicksLeft, remote, tzdata, clock, button, progressValue, progressMax,
                   progressLabel, statusLabel, children, display>>

(* status_label.config(...), then the call of get_all_pages for the        *)
(* course list.                                                            *)
ShowUser(w) ==
    /\ th[w].pc = "show_user"
    /\ statusLabel' = "user"
    /\ th' = [th EXCEPT ![w] = StartPages(th[w], "courses", CoursesUrl, ActiveParams)]
    /\ UNCHANGED <<clicksLeft, remote, tzdata, clock, button, progressValue, progressMax,
                   progressLabel, children, display>>

(* One pass of get_all_pages' loop, for either collection. *)
GetPage(w) ==
    /\ th[w].pc \in {"courses", "assignments"}
    /\ th[w].url # NoUrl
    /\ \E status \in Statuses : th' = [th EXCEPT ![w] = PageStep(th[w], status)]
    /\ UNCHANGED <<clicksLeft, remote, tzdata, clock, button, progressValue, progressMax,
                   progressLabel, statusLabel, children, display>>

(* get_all_pages returned the courses: set the bar's maximum and enter the *)
(* course loop, or skip it when there is no course.                        *)
HaveCourses(w) ==
    /\ th[w].pc = "courses"
    /\ th[w].url = NoUrl
    /\ LET l == [th[w] EXCEPT !.courses = th[w].results,
                              !.total_courses = Len(th[w].results),
                              !.all_assignments = <<>>]
       IN /\ progressMax' = Max(l.total_courses, 1)
          /\ th' = [th EXCEPT ![w] =
                       IF l.total_courses = 0
                       THEN [l EXCEPT !.pc = "classify"]
                       ELSE StartPages([l EXCEPT !.idx = 1], "assignments",
                                       AssignmentsUrl(l.courses[1].id), NoParams)]
    /\ UNCHANGED <<clicksLeft, remote, tzdata, clock, button, progressValue, progressLabel,
                   statusLabel, children, display>>

(* get_all_pages returned a course's assignments: merge them and set the   *)
(* progress bar's value.                                                   *)
MergeCourse(w) ==
    /\ th[w].pc = "assignments"
    /\ th[w].url = NoUrl
    /\ LET l == th[w]
           merged == [l EXCEPT
                         !.all_assignments =
                             l.all_assignments \o Tagged(l.courses[l.idx], l.results),
                         !.reports = Report(l.reports, l.idx, l.total_courses, l.results)]
           reported == Len(merged.reports) > Len(l.reports)
       IN /\ progressValue' = IF reported THEN l.idx ELSE progressValue
          /\ th' = [th EXCEPT ![w] =
                       [merged EXCEPT !.pc = "percent"]]
    /\ UNCHANGED <<clicksLeft, remote, tzdata, clock, button, progressMax, progressLabel,
                   statusLabel, children, display>>

(* The end of a pass of the course loop: the next course's first request,  *)
(* or the classification after the last course.                            *)
NextCourse(l) ==
    IF l.idx < l.total_courses
    THEN StartPages([l EXCEPT !.idx = l.idx + 1], "assignments",
                    AssignmentsUrl(l.courses[l.idx + 1].id), NoParams)
    ELSE [l EXCEPT !.pc = "classify"]

(* progress_label.config(text=f"Progress: {percent}%") and                 *)
(* app.update_idletasks(), then the next pass of the course loop.          *)
ShowPercent(w) ==
    /\ th[w].pc = "percent"
    /\ progressLabel' = Percent(th[w].idx, th[w].total_courses)
    /\ th' = [th EXCEPT ![w] = NextCourse(th[w])]
    /\ UNCHANGED <<clicksLeft, remote, tzdata, clock, button, progressValue, progressMax,
                   statusLabel, children, display>>

(* now = datetime.now(timezone.utc), the zone lookup, the two list         *)
(* comprehensions and the sort.                                            *)
Classify(w) ==
    /\ th[w].pc = "classify"
    /\ \E t \in clock..MaxClock :
          LET l == [th[w] EXCEPT !.now = t, !.local_tz = LocalZone(tzdata)]
              all == l.all_assignments
              sorted == [l EXCEPT
                            !.upcoming = SortByDue(SelectSeq(all,
                                            LAMBDA a : IsUpcoming(a, t))),
                            !.no_due = SelectSeq(all, IsNoDue),
                            !.grouped = EmptyGroups,
                            !.gi = 1,
                            !.pc = "group"]
          IN /\ clock' = t
             /\ th' = [th EXCEPT ![w] =
                          IF \E i \in 1..Len(all) : CompareRaises(all[i])
                          THEN Leave(l, ComparisonError(all))
                          ELSE IF sorted.upcoming = <<>> THEN StartPopulate(sorted)
                          ELSE sorted]
    /\ UNCHANGED <<clicksLeft, remote, tzdata, button, progressValue, progressMax, progressLabel,
                   statusLabel, children, display>>

(* One pass of the grouping loop; datetime.now(local_tz) is read again. *)
GroupItem(w) ==
    /\ th[w].pc = "group"
    /\ \E t \in clock..MaxClock :
          LET l == th[w]
              item == l.upcoming[l.gi]
              weekday == Weekday(LocalWall(DueInstant(item), l.local_tz))
              placed == [l EXCEPT
                            !.grouped[weekday] =
                                Append(@, WeekdayEntry(item, l.local_tz, t)),
                            !.gi = l.gi + 1]
          IN /\ clock' = t
             /\ th' = [th EXCEPT ![w] =
                          IF placed.gi > Len(l.upcoming) THEN StartPopulate(placed)
                          ELSE placed]
    /\ UNCHANGED <<clicksLeft, remote, tzdata, button, progressValue, progressMax, progressLabel,
                   statusLabel, children, display>>

(* ttk.Label(tab_frames[...], text=...): the next label of the populate   *)
(* loops is created as a child of its tab, the weekday tabs first, "No Due *)
(* Date" last.                                                             *)
CreateLabel(w) ==
    /\ th[w].pc = "populate"
    /\ LET tab == all_tabs[th[w].tab]
           text == TabLabels(th[w], tab)[th[w].li]
       IN children' = [children EXCEPT ![tab] = Append(@, Label(w, tab, text))]
    /\ th' = [th EXCEPT ![w].pc = "pack"]
    /\ UNCHANGED <<clicksLeft, remote, tzdata, clock, button, progressValue, progressMax,
                   progressLabel, statusLabel, display>>

(* .pack(...) of the label just created: it is shown below the labels      *)
(* packed before; if another thread has destroyed it meanwhile, Tk raises  *)
(* TclError (bad window path name), which the except clause catches.       *)
PackLabel(w) ==
    /\ th[w].pc = "pack"
    /\ LET tab == all_tabs[th[w].tab]
           widget == Label(w, tab, TabLabels(th[w], tab)[th[w].li])
       IN IF \E k \in 1..Len(children[tab]) : children[tab][k] = widget
          THEN /\ display' = [display EXCEPT ![tab] = Append(@, widget)]
               /\ th' = [th EXCEPT ![w] = AfterLabel(th[w])]
          ELSE /\ display' = display
               /\ th' = [th EXCEPT ![w] = Leave(th[w], "tcl_error")]
    /\ UNCHANGED <<clicksLeft, remote, tzdata, clock, button, progressValue, progressMax,
                   progressLabel, statusLabel, children>>

(* progress_label.config(text="Progress: 100%"), the end of the try block. *)
ShowDone(w) ==
    /\ th[w].pc = "done"
    /\ progressLabel' = 100
    /\ th' = [th EXCEPT ![w] = Leave(th[w], "ok")]
    /\ UNCHANGED <<clicksLeft, remote, tzdata, clock, button, progressValue, progressMax,
                   statusLabel, children, display>>

(* The finally block; the thread ends and its locals are gone. *)
Finally(w) ==
    /\ th[w].pc = "finally"
    /\ button' = FinallyButton(th[w].outcome)
    /\ th' = [th EXCEPT ![w] = [InitLocal EXCEPT !.pc = "ended"]]
    /\ UNCHANGED <<clicksLeft, remote, tzdata, clock, progressValue, progressMax, progressLabel,
                   statusLabel, children, display>>

Step(w) ==
    \/ DisableButton(w)
    \/ ResetBar(w)
    \/ ResetLabel(w)
    \/ CheckToken(w)
    \/ ListChildren(w)
    \/ DestroyWidget(w)
    \/ Authenticate(w)
    \/ ShowUser(w)
    \/ GetPage(w)
    \/ HaveCourses(w)
    \/ MergeCourse(w)
    \/ ShowPercent(w)
    \/ Classify(w)
    \/ GroupItem(w)
    \/ CreateLabel(w)
    \/ PackLabel(w)
    \/ ShowDone(w)
    \/ Finally(w)

(* The widgets as the window is built. *)
Fresh ==
    [progressMax |-> DefaultMaximum, progressLabel |-> 0, statusLabel |-> "none",
     children |-> EmptyTabs, display |-> EmptyTabs]

(* The widgets as an earlier successful run over no courses left them. *)
AfterEmptyRun ==
    [progressMax |-> 1, progressLabel |-> 100, statusLabel |-> "user",
     children |-> [tab \in TabSet |-> <<Label(0, tab, Placeholder)>>],
     display |-> [tab \in TabSet |-> <<Label(0, tab, Placeholder)>>]]

(* The states a session starts from: what the server holds, whether the    *)
(* zone database is installed, the time, the widgets, and how many clicks  *)
(* the user is going to make.                                              *)
InitWith(remotes, installs, start, windows, session) ==
    /\ remote \in remotes
    /\ tzdata \in installs
    /\ clock = start
    /\ button = "normal"
    /\ progressValue = 0
    /\ \E window \in windows :
          /\ progressMax = window.progressMax
          /\ progressLabel = window.progressLabel
          /\ statusLabel = window.statusLabel
          /\ children = window.children
          /\ display = window.display
    /\ th = [w \in Workers |-> InitLocal]
    /\ clicksLeft = session

Init == InitWith(SpecRemotes, BOOLEAN, 0, {Fresh, AfterEmptyRun}, 1)

PageInit == InitWith(PageRemotes, {TRUE}, MaxClock, {AfterEmptyRun}, 1)

ConcInit == InitWith(ConcRemotes, {TRUE}, MaxClock, {Fresh}, MaxClicks)

FairInit == InitWith(ConcRemotes, BOOLEAN, MaxClock, {Fresh, AfterEmptyRun}, FairClicks)

Next == \E w \in Workers : Click(w) \/ Step(w)

(* Sessions of one click, every kind of due date: one run on its own. *)
Spec == Init /\ [][Next]_vars

(* Sessions of one click, longer collections. *)
PageSpec == PageInit /\ [][Next]_vars

(* Sessions of several clicks: threads running side by side. *)
ConcSpec == ConcInit /\ [][Next]_vars

(* A started thread keeps running: every call it makes returns. *)
FairSpec == FairInit /\ [][Next]_vars /\ \A w \in Workers : WF_vars(Step(w))

----------------------------------------------------------------------------
(* Vocabulary of the properties *)

(* The run of worker w is over: its try block was left, only the finally   *)
(* block is still to run.                                                  *)
Ended(w) == th[w].pc = "finally"

Success(w) == Ended(w) /\ th[w].outcome = "ok"

(* The run got as far as the classification of its merged list. *)
Classified(w) ==
    Ended(w) /\ th[w].outcome \in {"ok", "tcl_error", "value_error", "type_error"}

Merged(w) == th[w].all_assignments

(* The weekday buckets of run w: the places of `grouped` that hold the     *)
(* entry of the assignment named `name`.                                   *)
WeekdayPlaces(w, name) ==
    UNION {{<<day, k>> : k \in {j \in 1..Len(th[w].grouped[day]) :
                                   th[w].grouped[day][j].name = name}} :
           day \in DaySet}

(* The "No Due Date" bucket of run w: the places of no_due_assignments     *)
(* that hold the assignment named `name`.                                  *)
NoDuePlaces(w, name) ==
    {k \in 1..Len(th[w].no_due) : th[w].no_due[k].assignment_name = name}

WeekdayEntries(w) ==
    UNION {{<<day, k>> : k \in 1..Len(th[w].grouped[day])} : day \in DaySet}

(* The labels thread w has created that its tabs still hold. *)
OwnLabels(w) ==
    UNION {{<<tab, k>> : k \in {j \in 1..Len(children[tab]) :
                                   children[tab][j].owner = w}} :
           tab \in TabSet}

Parses(a) ==
    a.due_at # NoneDue /\ parse_due_date(a.due_at).ok /\ parse_due_date(a.due_at).aware

Past(a, now) == Parses(a) /\ DueInstant(a) < now

(* The position in the merged list of the record with this name (the       *)
(* remote's assignment names are all different).                           *)
MergeIndex(w, name) == CHOOSE i \in 1..Len(Merged(w)) : Merged(w)[i].assignment_name = name

DueOf(w, name) == DueInstant(Merged(w)[MergeIndex(w, name)])

(* Where a label's text stands among the labels run w creates in a tab. *)
LabelIndex(w, tab, text) ==
    CHOOSE i \in 1..Len(TabLabels(th[w], tab)) : TabLabels(th[w], tab)[i] = text

InFlightSet == {w \in Workers : InFlight(w)}

ExpectedReports(n, total) == [k \in 1..n |-> [completed |-> k, total |-> total]]

Flatten(pages) ==
    LET F[k \in 0..Len(pages)] == IF k = 0 THEN <<>> ELSE F[k - 1] \o pages[k]
    IN F[Len(pages)]

(* get_all_pages has just returned to fetch_assignments_thread. *)
Returned(w) == th[w].pc \in {"courses", "assignments"} /\ th[w].url = NoUrl

CallUrl(w) ==
    IF th[w].pc = "courses" THEN CoursesUrl
    ELSE AssignmentsUrl(th[w].courses[th[w].idx].id)

CallParams(w) == IF th[w].pc = "courses" THEN ActiveParams ELSE NoParams

CallRequests(w) ==
    SelectSeq(th[w].requests,
              LAMBDA r : r.url.ep = CallUrl(w).ep /\ r.url.cid = CallUrl(w).cid)

(* A step of thread w: only its own steps change its position or locals. *)
StepOf(w) == th'[w] # th[w]

(* The locals of a thread are its own: a step changes those of one thread. *)
LocalsArePrivate ==
    [][\A w, v \in Workers : (StepOf(w) /\ v # w) => th'[v] = th[v]]_vars

----------------------------------------------------------------------------
(* C1: a merged record whose due_at is present but does not parse is put   *)
(* in the "No Due Date" bucket, and the run it belongs to ends             *)
(* successfully.                                                           *)
C1_UnparseableGoesToNoDue ==
    \A w \in Workers : \A i \in 1..Len(Merged(w)) :
        (Classified(w) /\ Merged(w)[i].due_at # NoneDue
            /\ ~parse_due_date(Merged(w)[i].due_at).ok)
        => (Success(w) /\ NoDuePlaces(w, Merged(w)[i].assignment_name) # {})

(* C2: once a run has classified its merged list, every record is in       *)
(* exactly one of: one weekday bucket (once), the "No Due Date" bucket     *)
(* (once), the discarded past ones; and the three sizes add up to the      *)
(* list's.                                                                 *)
C2_Partition ==
    \A w \in Workers :
        Classified(w) =>
            /\ \A i \in 1..Len(Merged(w)) :
                  Cardinality(WeekdayPlaces(w, Merged(w)[i].assignment_name))
                  + Cardinality(NoDuePlaces(w, Merged(w)[i].assignment_name))
                  + (IF Past(Merged(w)[i], th[w].now) THEN 1 ELSE 0) = 1
            /\ Cardinality(WeekdayEntries(w)) + Len(th[w].no_due)
               + Cardinality({i \in 1..Len(Merged(w)) : Past(Merged(w)[i], th[w].now)})
               = Len(Merged(w))

(* C3: the progress reports of a run are (1,N), (2,N), ... in this order,  *)
(* one per course already merged, never more than N; each report sets the  *)
(* progress bar to its completed count; a successful run over the remote's *)
(* N courses has made exactly N of them (none when N = 0).                 *)
C3_ProgressReports ==
    /\ [](\A w \in Workers :
             /\ Len(th[w].reports) <= th[w].total_courses
             /\ th[w].reports = ExpectedReports(Len(th[w].reports), th[w].total_courses)
             /\ th[w].pc = "assignments" => Len(th[w].reports) = th[w].idx - 1
             /\ th[w].pc = "percent" => Len(th[w].reports) = th[w].idx
             /\ Success(w) =>
                   /\ th[w].total_courses = remote.ncourses
                   /\ Len(th[w].reports) = remote.ncourses)
    /\ [][\A w \in Workers :
             (StepOf(w) /\ th'[w].pc = "percent") =>
                 /\ Len(th'[w].reports) = Len(th[w].reports) + 1
                 /\ progressValue' = Len(th'[w].reports)]_vars

C3_Witness ==
    \E w \in Workers :
        /\ Success(w)
        /\ remote.ncourses = 2
        /\ remote.due[2] = <<>>
        /\ Len(th[w].reports) = 2
        /\ progressValue = 2

(* C4: when get_all_pages returns for a collection served as k pages, it   *)
(* has issued exactly k requests, the i-th to the i-th page, all but the   *)
(* first without query parameters, and its result is the pages' bodies     *)
(* concatenated in page order.                                             *)
C4_Pagination ==
    \A w \in Workers :
        Returned(w) =>
            LET pages == Pages(remote, CallUrl(w))
            IN /\ CallRequests(w) =
                    [i \in 1..Len(pages) |->
                        [url |-> [CallUrl(w) EXCEPT !.page = i],
                         params |-> IF i = 1 THEN CallParams(w) ELSE NoParams,
                         status |-> "ok"]]
               /\ th[w].results = Flatten(pages)
               /\ th[w].results = Collection(remote, CallUrl(w))

C4_Witness ==
    \E w \in Workers :
        /\ Returned(w)
        /\ th[w].pc = "assignments"
        /\ Len(Pages(remote, CallUrl(w))) = 3
        /\ Len(Pages(remote, CallUrl(w))[1]) = 2
        /\ Len(Pages(remote, CallUrl(w))[3]) = 1
        /\ Len(th[w].results) = 5

(* C5: a request answered with an error status is the last request of its  *)
(* run (no retry, no later request); the run is over with the HTTPError    *)
(* handler taken, its progress reports are those of the courses merged     *)
(* before, its buckets are empty and no label of its own is on display;    *)
(* and a run that is over writes no progress and no label any more.        *)
C5_HaltOnHttpError ==
    /\ [](\A w \in Workers : \A i \in 1..Len(th[w].requests) :
             th[w].requests[i].status = "http_error" =>
                 LET done == IF th[w].requests[i].url.ep = "assignments"
                             THEN th[w].idx - 1 ELSE 0
                 IN /\ i = Len(th[w].requests)
                    /\ Ended(w)
                    /\ th[w].outcome = "http_error"
                    /\ th[w].reports = ExpectedReports(done, th[w].total_courses)
                    /\ WeekdayEntries(w) = {}
                    /\ th[w].no_due = <<>>
                    /\ OwnLabels(w) = {})
    /\ [][\A w \in Workers :
             (Ended(w) /\ StepOf(w)) =>
                 /\ ~InFlight(w)'
                 /\ UNCHANGED <<progressValue, progressMax, progressLabel,
                                statusLabel, children, display>>]_vars

C5_Witness ==
    \E w \in Workers :
        /\ th[w].outcome = "http_error"
        /\ th[w].pc = "finally"
        /\ th[w].requests[Len(th[w].requests)].url.ep = "assignments"
        /\ th[w].requests[Len(th[w].requests)].url.page = 2
        /\ Len(th[w].reports) = 1
        /\ progressValue = 1

(* C6: in the result of a successful run the entries of each weekday       *)
(* bucket are in ascending order of due instant, entries with equal        *)
(* instants in merge order, and the entries of the "No Due Date" bucket    *)
(* are in merge order; the labels a run has packed into a tab stand in the *)
(* order of its bucket.                                                    *)
C6_BucketOrder ==
    \A w \in Workers :
        /\ Success(w) =>
            /\ \A day \in DaySet : \A j, k \in 1..Len(th[w].grouped[day]) :
                  j < k =>
                      LET a == th[w].grouped[day][j].name
                          b == th[w].grouped[day][k].name
                      IN \/ DueOf(w, a) < DueOf(w, b)
                         \/ /\ DueOf(w, a) = DueOf(w, b)
                            /\ MergeIndex(w, a) < MergeIndex(w, b)
            /\ \A j, k \in 1..Len(th[w].no_due) :
                  j < k => MergeIndex(w, th[w].no_due[j].assignment_name)
                               < MergeIndex(w, th[w].no_due[k].assignment_name)
        /\ (th[w].pc \in {"populate", "pack", "done"} \/ Classified(w)) =>
              \A tab \in TabSet : \A j, k \in 1..Len(display[tab]) :
                  (j < k /\ display[tab][j].owner = w /\ display[tab][k].owner = w)
                  => LabelIndex(w, tab, display[tab][j].text)
                         < LabelIndex(w, tab, display[tab][k].text)

C6_Witness ==
    \E w \in Workers : \E day \in DaySet :
        /\ Success(w)
        /\ Len(th[w].grouped[day]) = 2
        /\ Len(display[day]) = 2
        /\ display[day][2].text = th[w].grouped[day][2]
        /\ DueOf(w, th[w].grouped[day][1].name) = DueOf(w, th[w].grouped[day][2].name)
        /\ Merged(w)[1].due_at # Merged(w)[2].due_at

(* C7: at most one run is in flight at any time: once fetch_assignments    *)
(* has started a worker, no second worker is started before the first has  *)
(* finished.                                                               *)
C7_AtMostOneRun == Cardinality(InFlightSet) <= 1

(* What the button does guarantee: a worker that is alone in flight        *)
(* disables the button with its first statement, and from then on until    *)
(* its finally block the button stays disabled and no other worker is      *)
(* started.  The window is between Thread.start() and that first           *)
(* statement.                                                              *)
ButtonGuardsSoleRun ==
    [][\A w \in Workers :
          (/\ InFlightSet = {w}
           /\ (th[w].pc = "start" \/ button = "disabled")
           /\ th'[w].pc \notin {"start", "idle", "ended"})
          => (button' = "disabled" /\ InFlightSet' = {w})]_vars

(* C8: a successful run has a record with a due date in a weekday bucket   *)
(* exactly when its due instant is not before the run's one captured now;  *)
(* a record due exactly at now is in a bucket.                             *)
C8_InclusiveCutoff ==
    \A w \in Workers :
        Success(w) =>
            \A i \in 1..Len(Merged(w)) :
                Merged(w)[i].due_at # NoneDue =>
                    (WeekdayPlaces(w, Merged(w)[i].assignment_name) # {}
                        <=> DueInstant(Merged(w)[i]) >= th[w].now)

C8_Witness ==
    \E w \in Workers : \E i \in 1..Len(Merged(w)) :
        /\ Success(w)
        /\ Parses(Merged(w)[i])
        /\ DueInstant(Merged(w)[i]) = th[w].now
        /\ WeekdayPlaces(w, Merged(w)[i].assignment_name) # {}
        /\ clock > th[w].now

(* C9: a worker's first step disables the button; the step that ends a run *)
(* enables it; the button is enabled whenever no run is in flight; and the *)
(* runs of a session all end: from some point on none is in flight and the *)
(* button is enabled.                                                      *)
C9_ButtonReenabled ==
    /\ [][\A w \in Workers :
             /\ (th[w].pc = "start" /\ th'[w].pc # "start") => button' = "disabled"
             /\ (InFlight(w) /\ ~InFlight(w)') => button' = "normal"]_vars
    /\ [](InFlightSet = {} => button = "normal")
    /\ <>[](InFlightSet = {} /\ button = "normal")

(* A run has ended through an except clause, after it had cleared the tabs *)
(* or set the bar's maximum, and the button is enabled.                    *)
C9_Witness ==
    /\ InFlightSet = {}
    /\ th[1].pc = "ended"
    /\ button = "normal"
    /\ progressMax = 1
    /\ \A tab \in TabSet : display[tab] = <<>>

(* C10: every entry of a weekday bucket shows a remaining time that is not *)
(* negative: days >= 0 and 0 <= hours <= 23.                               *)
C10_RemainingNonNegative ==
    \A w \in Workers : \A day \in DaySet : \A k \in 1..Len(th[w].grouped[day]) :
        /\ th[w].grouped[day][k].days >= 0
        /\ th[w].grouped[day][k].hours >= 0
        /\ th[w].grouped[day][k].hours <= HoursPerDay - 1

====
